---------------------------- MODULE Spec2Model ----------------------------
(***************************************************************************)
(* Level-synchronous parallel BFS of src/src/bfs_thread.cpp: the reusable  *)
(* Barrier, the worker lambda f with its chunked partitioning, and the     *)
(* orchestrator loop of parallel_bfs; the sequential oracle of             *)
(* src/src/bfs_seq.cpp; and the range computation of the static variant    *)
(* __parallel_bfs_static.                                                  *)
(*                                                                         *)
(* Threads interleave at the granularity of one shared access per step.    *)
(* The visited array and stop_master are accessed without a common lock:   *)
(* a racing read yields the old or the new value, which the interleaving   *)
(* of the separate read and write steps produces.                          *)
(* std::condition_variable::wait(lock, pred) is while (!pred()) wait(lock) *)
(* and wait(lock) may return spuriously; both are modelled as such.        *)
(***************************************************************************)
EXTENDS Integers, Sequences, FiniteSets, TLC

(* ------------------------------ bounds --------------------------------- *)

\* n_workers ranges over 1..MaxWorkers
MaxWorkers == 2
\* chunk sizes walked by the partition specification: 1..MaxChunk
MaxChunk == 3
\* frontier lengths walked by the partition specification: 0..MaxLen
MaxLen == 6
\* worker counts of the partition specification: 1..MaxPartWorkers
MaxPartWorkers == 3

\* the value config.hpp gives the chunk size
CHUNK_SIZE == 2

(* ------------------------------ graphs --------------------------------- *)

\* Graph views: adj[n+1] is the ordered neighbour list of node n, value[n+1]
\* its payload (class node / class Graph).
TreeGraph ==
    [adj   |-> << <<1, 2>>, <<0, 3>>, <<0, 4>>, <<1>>, <<2>> >>,
     value |-> << 7, 7, 8, 7, 7 >>]

DisconnectedGraph ==
    [adj   |-> << <<1>>, <<0>>, << >>, <<2>> >>,
     value |-> << 8, 8, 7, 8 >>]

DiamondGraph ==
    [adj   |-> << <<1, 2>>, <<3>>, <<3, 0>>, <<0>> >>,
     value |-> << 7, 8, 7, 7 >>]

SingleGraph ==
    [adj   |-> << <<0>> >>,
     value |-> << 7 >>]

FanGraph ==
    [adj   |-> << <<3, 1, 2>>, <<4>>, <<4>>, <<4, 1>>, << >> >>,
     value |-> << 8, 7, 8, 7, 7 >>]

Graphs == {TreeGraph, DisconnectedGraph, DiamondGraph, SingleGraph, FanGraph}

\* the value searched for: held by some nodes of a graph and not by others,
\* by its only node (SingleGraph), or only out of reach of the start node
\* (DisconnectedGraph from node 0)
SearchValues == {7}

VARIABLES
    \* inputs of parallel_bfs, fixed for a run
    graph, start_node, search_value, n_workers, chunk_size,
    \* locals of parallel_bfs shared with the workers by reference
    curr_frontier, partial_new_frontier, partial_results, visited, game_over,
    \* orchestrator-only locals
    first_iteration, merging_set, total_occurrences, mpc, mi,
    \* Barrier fields; w_mutex is the set of workers holding it (empty: free),
    \* m_mutex is TRUE while the orchestrator holds it
    m_count, m_generation, stop_master, w_mutex, m_mutex,
    \* the workers: per thread_no a record of the lambda's locals and position
    w,
    \* history: frontier at every loop head, f_node calls per node,
    \* WorkerWait calls per worker, MasterWait returns, StartWorkers calls
    frontierLog, f_node_calls, arrivals, masterReturns, releases,
    \* history: per worker the content of its buffer when MasterWait last
    \* returned, writes of stop_master = true, notify_one calls, per worker
    \* the writes of partial_results[t]
    produced, signals, notifies, publishes,
    \* history: the visited array as it stood when each logged frontier was
    \* installed
    visitedLog,
    \* the partition walk (specification PartSpec only)
    part

mainvars == << graph, start_node, search_value, n_workers, chunk_size,
               curr_frontier, partial_new_frontier, partial_results, visited,
               game_over, first_iteration, merging_set, total_occurrences,
               mpc, mi, m_count, m_generation, stop_master, w_mutex, m_mutex,
               w, frontierLog, f_node_calls, arrivals, masterReturns, releases,
               produced, signals, notifies, publishes, visitedLog >>

vars == << mainvars, part >>

n_nodes == Len(graph.adj)
Nodes == 0 .. (n_nodes - 1)
Workers == 0 .. (n_workers - 1)
ThreadIds == 0 .. (MaxWorkers - 1)
Adj(n) == graph.adj[n + 1]
Value(n) == graph.value[n + 1]


(* ------------------- pure helpers of the worker lambda ------------------ *)

\* line 111: int number_of_chunks = (curr_size / chunk_size)
NumberOfChunks(size, chunk) == size \div chunk

\* the remainder taken by every worker
ExtraChunk_AnyThread(thread_no, size, chunk) == (size % chunk) > 0

\* line 112: the remainder is worker 0's
ExtraChunk(thread_no, size, chunk) == (thread_no = 0) /\ ((size % chunk) > 0)

\* line 131: auto start = i * chunk_size
ChunkStart(i, chunk) == i * chunk

\* line 132: auto stop = start + chunk_size
ChunkStop(start, chunk) == start + chunk

\* the chunk loop stepping by one
NextChunk_ByOne(i, nw) == i + 1

\* line 129: i += n_workers
NextChunk(i, nw) == i + nw

\* line 151: size_t i = number_of_chunks * chunk_size
ExtraStart(nchunks, chunk) == nchunks * chunk

\* the start node never counted
Matches_NotStart(node) == node # start_node /\ Value(node) = search_value

\* line 116: g->nodes[curr_node]->value == search_value
Matches(node) == Value(node) = search_value

\* the test of the flag left out
Unvisited_Always(val) == TRUE

\* line 121: visited[val] == 0
Unvisited(val) == visited[val] = 0

\* the mark left out
MarkVisited_Dropped(vis, val) == vis

\* the flag flipped instead of set
MarkVisited_Toggle(vis, val) == [vis EXCEPT ![val] = 1 - @]

\* line 124: visited[val] = 1
MarkVisited(vis, val) == [vis EXCEPT ![val] = 1]

\* the value inserted at the front of the buffer
PushBack_Front(buf, val) == << val >> \o buf

\* line 123: partial_new_frontier[thread_no].push_back(val)
PushBack(buf, val) == Append(buf, val)

(* ------------------------- helpers of the Barrier ----------------------- *)

\* the party size taken one too small
m_threshold_Less == n_workers - 1

\* line 27: m_threshold(i_count), and Barrier(n_workers) at line 98
m_threshold == n_workers

\* the notification sent one arrival early
LastArrival_Early(count) == count <= 1

\* line 62: if (!--m_count), on the decremented value
LastArrival(count) == count = 0

\* a wait that any wakeup ends
WorkerPred_NoWait(l_gen) == TRUE

\* line 69: return l_gen != m_generation
WorkerPred(l_gen) == l_gen # m_generation

\* line 40: return stop_master
MasterPred == stop_master

\* line 50: m_generation++
NextGeneration(gen) == gen + 1

\* one blocked worker woken, the lowest-numbered, as notify_one would
NotifyAll_One(ws) ==
    [t \in DOMAIN ws |->
        IF ws[t].pc = "ww_blocked" /\ \A u \in DOMAIN ws : ws[u].pc = "ww_blocked" => t <= u
          THEN [ws[t] EXCEPT !.pc = "ww_woken"] ELSE ws[t]]

\* line 51: w_cond.notify_all(): every worker blocked in w_cond.wait is woken
NotifyAll(ws) ==
    [t \in DOMAIN ws |->
        IF ws[t].pc = "ww_blocked" THEN [ws[t] EXCEPT !.pc = "ww_woken"] ELSE ws[t]]

\* line 66: m_cond.notify_one(): wakes the orchestrator only if it is blocked
\* in m_cond.wait at that moment
NotifyOne(pc) == IF pc = "mw_blocked" THEN "mw_woken" ELSE pc

(* ----------------------- helpers of the orchestrator -------------------- *)

Range(s) == {s[x] : x \in DOMAIN s}

\* the frontier seeded with node 0 whatever the start node
SeedFrontier_NodeZero(frontier, start) == Append(frontier, 0)

\* line 165: curr_frontier.push_back(start_node)
SeedFrontier(frontier, start) == Append(frontier, start)

\* the buffer replacing what the set held
MergeInsert_Overwrite(set, buf) == Range(buf)

\* line 186: merging_set.insert(buf.begin(), buf.end())
MergeInsert(set, buf) == set \cup Range(buf)

\* line 190: assign(merging_set.begin(), merging_set.end()): an unordered_set
\* iterates in an unspecified order
Orders(set) ==
    {s \in [1 .. Cardinality(set) -> set] : \A a, b \in DOMAIN s : a # b => s[a] # s[b]}

\* the sort left out
SortFrontier_None(s) == s

\* std::sort, line 193: ascending insertion of each element
RECURSIVE InsertSorted(_, _)
InsertSorted(s, x) ==
    IF s = << >> THEN << x >>
    ELSE IF x <= Head(s) THEN << x >> \o s
    ELSE << Head(s) >> \o InsertSorted(Tail(s), x)

RECURSIVE SortFrontier(_)
SortFrontier(s) ==
    IF s = << >> THEN << >> ELSE InsertSorted(SortFrontier(Tail(s)), Head(s))

(* ------------------------------- states --------------------------------- *)

\* a thread not yet created by line 170
Unborn ==
    [pc |-> "unborn", partial_occurrences |-> 0, curr_size |-> 0,
     number_of_chunks |-> 0, extra_chunk |-> FALSE, i |-> 0, j |-> 0,
     stop |-> 0, curr_node |-> 0, k |-> 1, ret |-> "elem", l_gen |-> 0]

PartOff == [pc |-> "off"]

\* the chunk sizes a run is built with: the configured one, and single
\* elements, which spread a short frontier over several workers
ChunkSizes == {1, CHUNK_SIZE}

\* lines 94-101: the locals of parallel_bfs and the Barrier on entry
Entry ==
    /\ curr_frontier = << >>
    /\ partial_new_frontier = [t \in 0 .. (n_workers - 1) |-> << >>]
    /\ partial_results = [t \in 0 .. (n_workers - 1) |-> 0]
    /\ visited = [n \in 0 .. (Len(graph.adj) - 1) |-> 0]
    /\ game_over = FALSE
    /\ first_iteration = TRUE
    /\ merging_set = {}
    /\ total_occurrences = 0
    /\ mpc = "seed"
    /\ mi = 0
    /\ m_count = n_workers
    /\ m_generation = 0
    /\ stop_master = FALSE
    /\ w_mutex = {}
    /\ m_mutex = FALSE
    /\ w = [t \in 0 .. (n_workers - 1) |-> Unborn]
    /\ frontierLog = << >>
    /\ f_node_calls = [n \in 0 .. (Len(graph.adj) - 1) |-> 0]
    /\ arrivals = [t \in 0 .. (n_workers - 1) |-> 0]
    /\ masterReturns = 0
    /\ releases = 0
    /\ produced = [t \in 0 .. (n_workers - 1) |-> {}]
    /\ signals = 0
    /\ notifies = 0
    /\ publishes = [t \in 0 .. (n_workers - 1) |-> 0]
    /\ visitedLog = << >>

\* the state on entry to parallel_bfs, for every input
Init ==
    /\ graph \in Graphs
    /\ start_node \in 0 .. (Len(graph.adj) - 1)
    /\ search_value \in SearchValues
    /\ n_workers \in 1 .. MaxWorkers
    /\ chunk_size \in ChunkSizes
    /\ Entry
    /\ part = PartOff


(* --------------------------- frame conditions --------------------------- *)

inputs == << graph, start_node, search_value, n_workers, chunk_size >>
barrier == << m_count, m_generation, stop_master, w_mutex, m_mutex >>
master == << first_iteration, merging_set, total_occurrences, mpc, mi >>
history == << frontierLog, f_node_calls, arrivals, masterReturns, releases,
             produced, signals, notifies, publishes, visitedLog >>
shared == << curr_frontier, partial_new_frontier, partial_results, visited, game_over >>

(* ------------------------- the worker lambda f -------------------------- *)

\* lines 107-112 and the initialiser of the for at line 129: the loop test
\* and the chunk indices of this pass
W_Loop(t) ==
    /\ t \in Workers
    /\ w[t].pc = "loop"
    /\ IF game_over
         THEN w' = [w EXCEPT ![t].pc = "exit"]
         ELSE w' = [w EXCEPT
                 ![t].curr_size = Len(curr_frontier),
                 ![t].number_of_chunks = NumberOfChunks(Len(curr_frontier), chunk_size),
                 ![t].extra_chunk = ExtraChunk(t, Len(curr_frontier), chunk_size),
                 ![t].i = t,
                 ![t].pc = "chunk"]
    /\ UNCHANGED << inputs, shared, master, barrier, history, part >>

\* lines 129-132: the test of the chunk loop and the bounds of chunk i;
\* lines 149-151 when the loop is over
W_Chunk(t) ==
    /\ t \in Workers
    /\ w[t].pc = "chunk"
    /\ IF w[t].i < w[t].number_of_chunks
         THEN w' = [w EXCEPT
                 ![t].j = ChunkStart(w[t].i, chunk_size),
                 ![t].stop = ChunkStop(ChunkStart(w[t].i, chunk_size), chunk_size),
                 ![t].ret = "elem",
                 ![t].pc = "elem"]
         ELSE IF w[t].extra_chunk
         THEN w' = [w EXCEPT
                 ![t].j = ExtraStart(w[t].number_of_chunks, chunk_size),
                 ![t].stop = w[t].curr_size,
                 ![t].ret = "extra",
                 ![t].pc = "extra"]
         ELSE w' = [w EXCEPT ![t].pc = "ww_lock"]
    /\ UNCHANGED << inputs, shared, master, barrier, history, part >>

\* lines 114-118, entered from line 144 or 154: curr_node = curr_frontier[j]
\* and the match test of f_node
FNodeEnter(t) ==
    LET node == curr_frontier[w[t].j + 1] IN
    /\ w' = [w EXCEPT
             ![t].curr_node = node,
             ![t].partial_occurrences =
                 IF Matches(node) THEN @ + 1 ELSE @,
             ![t].k = 1,
             ![t].pc = "adj"]
    /\ f_node_calls' = [f_node_calls EXCEPT ![node] = @ + 1]

\* lines 138-145: one element of a chunk, or the step to the next chunk
W_Elem(t) ==
    /\ t \in Workers
    /\ w[t].pc = "elem"
    /\ IF w[t].j < w[t].stop
         THEN FNodeEnter(t)
         ELSE /\ w' = [w EXCEPT ![t].i = NextChunk(w[t].i, n_workers), ![t].pc = "chunk"]
              /\ UNCHANGED f_node_calls
    /\ UNCHANGED << inputs, shared, master, barrier, part,
                    frontierLog, arrivals, masterReturns, releases,
                    produced, signals, notifies, publishes, visitedLog >>

\* lines 151-155: one element of worker 0's remainder, or the end of the pass
W_Extra(t) ==
    /\ t \in Workers
    /\ w[t].pc = "extra"
    /\ IF w[t].j < w[t].curr_size
         THEN FNodeEnter(t)
         ELSE /\ w' = [w EXCEPT ![t].pc = "ww_lock"]
              /\ UNCHANGED f_node_calls
    /\ UNCHANGED << inputs, shared, master, barrier, part,
                    frontierLog, arrivals, masterReturns, releases,
                    produced, signals, notifies, publishes, visitedLog >>

\* lines 119-121: the next neighbour and the read of its visited flag; at
\* the end of the list f_node returns to the loop that called it
W_Adj(t) ==
    /\ t \in Workers
    /\ w[t].pc = "adj"
    /\ IF w[t].k <= Len(Adj(w[t].curr_node))
         THEN IF Unvisited(Adj(w[t].curr_node)[w[t].k])
                THEN w' = [w EXCEPT ![t].pc = "push"]
                ELSE w' = [w EXCEPT ![t].k = @ + 1]
         ELSE w' = [w EXCEPT ![t].j = @ + 1, ![t].pc = w[t].ret]
    /\ UNCHANGED << inputs, shared, master, barrier, history, part >>

\* line 123
W_Push(t) ==
    /\ t \in Workers
    /\ w[t].pc = "push"
    /\ partial_new_frontier' =
           [partial_new_frontier EXCEPT
              ![t] = PushBack(@, Adj(w[t].curr_node)[w[t].k])]
    /\ w' = [w EXCEPT ![t].pc = "mark"]
    /\ UNCHANGED << inputs, curr_frontier, partial_results, visited, game_over,
                    master, barrier, history, part >>

\* line 124
W_Mark(t) ==
    /\ t \in Workers
    /\ w[t].pc = "mark"
    /\ visited' = MarkVisited(visited, Adj(w[t].curr_node)[w[t].k])
    /\ w' = [w EXCEPT ![t].k = @ + 1, ![t].pc = "adj"]
    /\ UNCHANGED << inputs, curr_frontier, partial_new_frontier, partial_results,
                    game_over, master, barrier, history, part >>

\* line 162
W_Exit(t) ==
    /\ t \in Workers
    /\ w[t].pc = "exit"
    /\ partial_results' = [partial_results EXCEPT ![t] = w[t].partial_occurrences]
    /\ w' = [w EXCEPT ![t].pc = "done"]
    /\ publishes' = [publishes EXCEPT ![t] = @ + 1]
    /\ UNCHANGED << inputs, curr_frontier, partial_new_frontier, visited, game_over,
                    master, barrier, frontierLog, f_node_calls, arrivals,
                    masterReturns, releases, produced, signals, notifies, visitedLog, part >>

(* -------------------------- Barrier::WorkerWait ------------------------- *)

\* lines 60-62: lock w_mutex, snapshot the generation, decrement m_count
WW_Enter(t) ==
    /\ t \in Workers
    /\ w[t].pc = "ww_lock"
    /\ w_mutex = {}
    /\ w_mutex' = {t}
    /\ m_count' = m_count - 1
    /\ w' = [w EXCEPT ![t].l_gen = m_generation, ![t].pc = "ww_test"]
    /\ arrivals' = [arrivals EXCEPT ![t] = @ + 1]
    /\ UNCHANGED << inputs, shared, master, m_generation, stop_master, m_mutex,
                    frontierLog, f_node_calls, masterReturns, releases,
                    produced, signals, notifies, publishes, visitedLog, part >>

\* lines 62-65: the last arrival resets the count and sets stop_master
WW_Test(t) ==
    /\ t \in Workers
    /\ w[t].pc = "ww_test"
    /\ IF LastArrival(m_count)
         THEN /\ m_count' = m_threshold
              /\ stop_master' = TRUE
              /\ signals' = signals + 1
              /\ w' = [w EXCEPT ![t].pc = "ww_notify"]
         ELSE /\ w' = [w EXCEPT ![t].pc = "ww_pred"]
              /\ UNCHANGED << m_count, stop_master, signals >>
    /\ UNCHANGED << inputs, shared, master, m_generation, w_mutex, m_mutex,
                    frontierLog, f_node_calls, arrivals, masterReturns, releases,
                    produced, notifies, publishes, visitedLog, part >>

\* line 66
WW_Notify(t) ==
    /\ t \in Workers
    /\ w[t].pc = "ww_notify"
    /\ mpc' = NotifyOne(mpc)
    /\ w' = [w EXCEPT ![t].pc = "ww_pred"]
    /\ notifies' = notifies + 1
    /\ UNCHANGED << inputs, shared, first_iteration, merging_set, total_occurrences,
                    mi, barrier, frontierLog, f_node_calls, arrivals,
                    masterReturns, releases, produced, signals, publishes, visitedLog, part >>

\* lines 68-69: the predicate of w_cond.wait, evaluated holding w_mutex; TRUE
\* returns from WorkerWait (the lock's destructor unlocks)
WW_Pred(t) ==
    /\ t \in Workers
    /\ w[t].pc = "ww_pred"
    /\ IF WorkerPred(w[t].l_gen)
         THEN /\ w' = [w EXCEPT ![t].pc = "loop"]
              /\ w_mutex' = {}
         ELSE /\ w' = [w EXCEPT ![t].pc = "ww_towait"]
              /\ UNCHANGED w_mutex
    /\ UNCHANGED << inputs, shared, master, m_count, m_generation, stop_master,
                    m_mutex, history, part >>

\* w_cond.wait(w_lock): releases w_mutex and blocks
WW_Block(t) ==
    /\ t \in Workers
    /\ w[t].pc = "ww_towait"
    /\ w_mutex' = {}
    /\ w' = [w EXCEPT ![t].pc = "ww_blocked"]
    /\ UNCHANGED << inputs, shared, master, m_count, m_generation, stop_master,
                    m_mutex, history, part >>

\* a spurious return of w_cond.wait(w_lock)
WW_Spurious(t) ==
    /\ t \in Workers
    /\ w[t].pc = "ww_blocked"
    /\ w' = [w EXCEPT ![t].pc = "ww_woken"]
    /\ UNCHANGED << inputs, shared, master, barrier, history, part >>

\* a woken worker re-acquires w_mutex before wait returns
WW_Reacquire(t) ==
    /\ t \in Workers
    /\ w[t].pc = "ww_woken"
    /\ w_mutex = {}
    /\ w_mutex' = {t}
    /\ w' = [w EXCEPT ![t].pc = "ww_pred"]
    /\ UNCHANGED << inputs, shared, master, m_count, m_generation, stop_master,
                    m_mutex, history, part >>

(* ---------------------- the orchestrator, parallel_bfs ------------------ *)

\* lines 165-167
M_Seed ==
    /\ mpc = "seed"
    /\ curr_frontier' = SeedFrontier(curr_frontier, start_node)
    /\ visited' = MarkVisited(visited, start_node)
    /\ first_iteration' = TRUE
    /\ frontierLog' = Append(frontierLog, curr_frontier')
    /\ visitedLog' = Append(visitedLog, visited')
    /\ mpc' = "spawn"
    /\ mi' = 0
    /\ UNCHANGED << inputs, partial_new_frontier, partial_results, game_over,
                    merging_set, total_occurrences, barrier, w,
                    f_node_calls, arrivals, masterReturns, releases,
                    produced, signals, notifies, publishes, part >>

\* lines 169-170: thread i is created and may run at once
M_Spawn ==
    /\ mpc = "spawn"
    /\ IF mi < n_workers
         THEN /\ w' = [w EXCEPT ![mi].pc = "loop"]
              /\ mi' = mi + 1
              /\ UNCHANGED mpc
         ELSE /\ mpc' = "while"
              /\ UNCHANGED << w, mi >>
    /\ UNCHANGED << inputs, shared, first_iteration, merging_set, total_occurrences,
                    barrier, history, part >>

\* lines 173-178: the loop test and the choice between StartWorkers and the
\* first iteration; line 197 when the frontier is empty
M_While ==
    /\ mpc = "while"
    /\ IF curr_frontier # << >>
         THEN IF ~first_iteration
                THEN /\ mpc' = "start"
                     /\ UNCHANGED << first_iteration, game_over >>
                ELSE /\ first_iteration' = FALSE
                     /\ mpc' = "mw_lock"
                     /\ UNCHANGED game_over
         ELSE /\ game_over' = TRUE
              /\ mpc' = "final_start"
              /\ UNCHANGED first_iteration
    /\ UNCHANGED << inputs, curr_frontier, partial_new_frontier, partial_results,
                    visited, merging_set, total_occurrences, mi, barrier, w,
                    history, part >>

\* Barrier::StartWorkers, lines 47-52, all of it under w_mutex
StartWorkers ==
    /\ w_mutex = {}
    /\ m_generation' = NextGeneration(m_generation)
    /\ w' = NotifyAll(w)
    /\ releases' = releases + 1
    /\ UNCHANGED << m_count, stop_master, w_mutex, m_mutex >>

\* line 176
M_Start ==
    /\ mpc = "start"
    /\ StartWorkers
    /\ mpc' = "mw_lock"
    /\ UNCHANGED << inputs, shared, first_iteration, merging_set, total_occurrences,
                    mi, frontierLog, f_node_calls, arrivals, masterReturns,
                    produced, signals, notifies, publishes, visitedLog, part >>

\* line 198, then the initialisers of lines 201-202
M_FinalStart ==
    /\ mpc = "final_start"
    /\ StartWorkers
    /\ mpc' = "join"
    /\ mi' = 0
    /\ total_occurrences' = 0
    /\ UNCHANGED << inputs, shared, first_iteration, merging_set,
                    frontierLog, f_node_calls, arrivals, masterReturns,
                    produced, signals, notifies, publishes, visitedLog, part >>

(* -------------------------- Barrier::MasterWait ------------------------- *)

\* line 38
MW_Lock ==
    /\ mpc = "mw_lock"
    /\ m_mutex' = TRUE
    /\ mpc' = "mw_pred"
    /\ UNCHANGED << inputs, shared, first_iteration, merging_set, total_occurrences,
                    mi, m_count, m_generation, stop_master, w_mutex, w, history, part >>

\* lines 39-40: the predicate of m_cond.wait, evaluated holding m_mutex only
MW_Pred ==
    /\ mpc = "mw_pred"
    /\ mpc' = IF MasterPred THEN "mw_reset" ELSE "mw_towait"
    /\ UNCHANGED << inputs, shared, first_iteration, merging_set, total_occurrences,
                    mi, barrier, w, history, part >>

\* m_cond.wait(m_lock): releases m_mutex and blocks
MW_Block ==
    /\ mpc = "mw_towait"
    /\ m_mutex' = FALSE
    /\ mpc' = "mw_blocked"
    /\ UNCHANGED << inputs, shared, first_iteration, merging_set, total_occurrences,
                    mi, m_count, m_generation, stop_master, w_mutex, w, history, part >>

\* a spurious return of m_cond.wait(m_lock)
MW_Spurious ==
    /\ mpc = "mw_blocked"
    /\ mpc' = "mw_woken"
    /\ UNCHANGED << inputs, shared, first_iteration, merging_set, total_occurrences,
                    mi, barrier, w, history, part >>

\* the woken orchestrator re-acquires m_mutex before wait returns
MW_Reacquire ==
    /\ mpc = "mw_woken"
    /\ m_mutex' = TRUE
    /\ mpc' = "mw_pred"
    /\ UNCHANGED << inputs, shared, first_iteration, merging_set, total_occurrences,
                    mi, m_count, m_generation, stop_master, w_mutex, w, history, part >>

\* lines 41-42, then the initialiser of line 184
MW_Reset ==
    /\ mpc = "mw_reset"
    /\ stop_master' = FALSE
    /\ m_mutex' = FALSE
    /\ masterReturns' = masterReturns + 1
    /\ produced' = [t \in Workers |-> Range(partial_new_frontier[t])]
    /\ mpc' = "merge"
    /\ mi' = 0
    /\ UNCHANGED << inputs, shared, first_iteration, merging_set, total_occurrences,
                    m_count, m_generation, w_mutex, w,
                    frontierLog, f_node_calls, arrivals, releases,
                    signals, notifies, publishes, visitedLog, part >>

(* ------------------------ merge and final reduce ------------------------ *)

\* lines 184-188: one buffer per step
M_Merge ==
    /\ mpc = "merge"
    /\ IF mi < n_workers
         THEN /\ merging_set' = MergeInsert(merging_set, partial_new_frontier[mi])
              /\ partial_new_frontier' = [partial_new_frontier EXCEPT ![mi] = << >>]
              /\ mi' = mi + 1
              /\ UNCHANGED mpc
         ELSE /\ mpc' = "assign"
              /\ UNCHANGED << merging_set, partial_new_frontier, mi >>
    /\ UNCHANGED << inputs, curr_frontier, partial_results, visited, game_over,
                    first_iteration, total_occurrences, barrier, w, history, part >>

\* lines 190-193: assign in the set's iteration order, clear, sort
M_Assign ==
    /\ mpc = "assign"
    /\ \E order \in Orders(merging_set) :
          /\ curr_frontier' = SortFrontier(order)
          /\ frontierLog' = Append(frontierLog, SortFrontier(order))
    /\ visitedLog' = Append(visitedLog, visited)
    /\ merging_set' = {}
    /\ mpc' = "while"
    /\ UNCHANGED << inputs, partial_new_frontier, partial_results, visited, game_over,
                    first_iteration, total_occurrences, mi, barrier, w,
                    f_node_calls, arrivals, masterReturns, releases,
                    produced, signals, notifies, publishes, part >>

\* lines 202-207: join thread i (it has left the lambda), add its result;
\* line 211 when all are joined
M_Join ==
    /\ mpc = "join"
    /\ IF mi < n_workers
         THEN /\ w[mi].pc = "done"
              /\ total_occurrences' = total_occurrences + partial_results[mi]
              /\ mi' = mi + 1
              /\ UNCHANGED mpc
         ELSE /\ mpc' = "done"
              /\ UNCHANGED << total_occurrences, mi >>
    /\ UNCHANGED << inputs, shared, first_iteration, merging_set, barrier, w,
                    history, part >>

(* ---------------------------- specification ----------------------------- *)

Worker(t) ==
    \/ W_Loop(t) \/ W_Chunk(t) \/ W_Elem(t) \/ W_Extra(t)
    \/ W_Adj(t) \/ W_Push(t) \/ W_Mark(t) \/ W_Exit(t)
    \/ WW_Enter(t) \/ WW_Test(t) \/ WW_Notify(t) \/ WW_Pred(t)
    \/ WW_Block(t) \/ WW_Reacquire(t)

Master ==
    \/ M_Seed \/ M_Spawn \/ M_While \/ M_Start \/ M_FinalStart
    \/ MW_Lock \/ MW_Pred \/ MW_Block \/ MW_Reacquire \/ MW_Reset
    \/ M_Merge \/ M_Assign \/ M_Join

\* condition variables may wake a waiter without a notification
Spurious == MW_Spurious \/ \E t \in ThreadIds : WW_Spurious(t)

Next == Master \/ (\E t \in ThreadIds : Worker(t)) \/ Spurious

Spec == Init /\ [][Next]_vars

(* ------------------ sequential_bfs of src/src/bfs_seq.cpp --------------- *)

\* lines 46-53: the neighbours of one node, in order, pushed when unvisited
RECURSIVE SeqExpand(_, _, _)
SeqExpand(adj, q, vis) ==
    IF adj = << >> THEN [q |-> q, visited |-> vis]
    ELSE IF ~vis[Head(adj)]
           THEN SeqExpand(Tail(adj), Append(q, Head(adj)), [vis EXCEPT ![Head(adj)] = TRUE])
           ELSE SeqExpand(Tail(adj), q, vis)

\* lines 34-54: the queue loop
RECURSIVE SeqLoop(_, _, _)
SeqLoop(q, vis, occ) ==
    IF q = << >> THEN occ
    ELSE LET curr == Head(q)
             next == SeqExpand(Adj(curr), Tail(q), vis)
         IN  SeqLoop(next.q, next.visited,
                     IF Value(curr) = search_value THEN occ + 1 ELSE occ)

\* lines 24-57
sequential_bfs ==
    SeqLoop(<< start_node >>, [n \in Nodes |-> n = start_node], 0)

(* ------------------------- reference definitions ------------------------ *)

Successors(S) == UNION {Range(graph.adj[n + 1]) : n \in S}

RECURSIVE ReachFrom(_)
ReachFrom(S) == IF Successors(S) \subseteq S THEN S ELSE ReachFrom(S \cup Successors(S))

\* the nodes reachable from the start node
Reachable == ReachFrom({start_node})

\* the BFS levels from the start node, the empty level last
RECURSIVE LevelsFrom(_, _)
LevelsFrom(level, seen) ==
    IF level = {} THEN << {} >>
    ELSE << level >> \o LevelsFrom(Successors(level) \ seen, seen \cup Successors(level))

Levels == LevelsFrom({start_node}, {start_node})

\* the one strictly increasing sequence over a set: its least element first
RECURSIVE Ascending(_)
Ascending(S) ==
    IF S = {} THEN << >>
    ELSE LET least == CHOOSE x \in S : \A y \in S : x <= y
         IN  << least >> \o Ascending(S \ {least})

WorkingPcs == {"loop", "chunk", "elem", "extra", "adj", "push", "mark"}
WaitingPcs == {"ww_test", "ww_notify", "ww_pred", "ww_towait", "ww_blocked", "ww_woken"}

\* the orchestrator is between a return of MasterWait and its next
\* StartWorkers call
AfterMasterWait ==
    \/ mpc \in {"merge", "assign", "start", "final_start"}
    \/ mpc = "while" /\ ~first_iteration

(* -------------------------------- claims -------------------------------- *)

\* C1: the value parallel_bfs returns equals the value sequential_bfs returns
\* on the same graph, start node and search value, for every worker count,
\* chunk size and interleaving.
C1_ParallelEqualsSequential ==
    mpc = "done" => total_occurrences = sequential_bfs

\* a run with two workers that raced on a node, found matches and returned
C1_Witness ==
    /\ mpc = "done"
    /\ n_workers = 2
    /\ graph = DiamondGraph
    /\ start_node = 0
    /\ search_value = 7
    /\ total_occurrences = 3
    /\ \A t \in Workers : partial_results[t] > 0

\* C2 (as claimed): no reachable state has the orchestrator and all workers
\* blocked on their condition variables while the run is unfinished.
C2_NoGlobalBlock ==
    ~ (mpc = "mw_blocked" /\ \A t \in Workers : w[t].pc = "ww_blocked")

\* C3: once MasterWait has returned for a round, every worker has finished
\* its pass and called WorkerWait for that round, and until the next
\* StartWorkers no worker is at a step that reads the frontier, writes
\* visited or appends to a partial buffer.
C3_WorkersParkedAfterMasterWait ==
    AfterMasterWait =>
        \A t \in Workers :
            /\ w[t].pc \in WaitingPcs
            /\ arrivals[t] = masterReturns
            /\ w[t].l_gen = m_generation

\* the orchestrator merges a two-worker round while the last worker has not
\* yet blocked
C3_Witness ==
    /\ mpc = "merge"
    /\ n_workers = 2
    /\ masterReturns = 2
    /\ \E t \in Workers : w[t].pc = "ww_notify"
    /\ \E t \in Workers : w[t].pc = "ww_blocked"

\* C4: over the rounds of a run every worker calls WorkerWait once per
\* generation, MasterWait for a round returns only after all of those calls,
\* and that return precedes the StartWorkers call that opens the next round;
\* no worker runs two passes in one generation or skips a generation.
C4_BarrierRounds ==
    /\ releases = m_generation
    /\ masterReturns \in {releases, releases + 1}
    /\ mpc \in {"mw_lock", "mw_pred", "mw_towait", "mw_blocked", "mw_woken", "mw_reset"}
           => masterReturns = releases
    /\ \A t \in Workers :
          /\ arrivals[t] >= masterReturns
          /\ arrivals[t] <= releases + 1
          /\ w[t].pc \in WorkingPcs \ {"loop"} => arrivals[t] = m_generation
          /\ w[t].pc \in {"ww_lock"} => arrivals[t] = m_generation
          /\ w[t].pc \in WaitingPcs =>
                /\ arrivals[t] = w[t].l_gen + 1
                /\ m_generation \in {w[t].l_gen, w[t].l_gen + 1}

\* the barrier has been reused: two workers are in their third pass
C4_Witness ==
    /\ n_workers = 2
    /\ releases = 2
    /\ masterReturns = 2
    /\ \A t \in Workers : w[t].pc \in WorkingPcs /\ arrivals[t] = 2

\* the scheduler runs every thread that can take a step; a condition
\* variable owes nobody a spurious wakeup
Fairness ==
    /\ WF_vars(Master)
    /\ \A t \in ThreadIds : WF_vars(Worker(t))

FairSpec == Init /\ [][Next]_vars /\ Fairness

\* every worker has called WorkerWait in a round whose MasterWait has not
\* returned yet
AllArrived == \A t \in Workers : arrivals[t] > masterReturns

\* C5 (as claimed): in every round, once all workers have called WorkerWait
\* the orchestrator's MasterWait eventually returns, wherever the last
\* worker's notification falls relative to the orchestrator's call.
C5_MasterWaitReturns == AllArrived ~> ~AllArrived

\* the number of rounds whose frontier holds node n
RoundsHolding(n) ==
    Cardinality({r \in DOMAIN frontierLog : n \in Range(frontierLog[r])})

NoRepeat(s) == \A a, b \in DOMAIN s : a # b => s[a] # s[b]

\* C6: a node is in the merged frontier of at most one round and is passed
\* to f_node at most once, whatever the workers' racing accesses to visited
\* did; when the run returns, every reachable node was in exactly one
\* frontier and passed to f_node exactly once.
C6_EachNodeOnce ==
    /\ \A r \in DOMAIN frontierLog : NoRepeat(frontierLog[r])
    /\ \A n \in Nodes : RoundsHolding(n) <= 1 /\ f_node_calls[n] <= RoundsHolding(n)
    /\ mpc = "done" =>
          \A n \in Reachable : RoundsHolding(n) = 1 /\ f_node_calls[n] = 1

\* two workers both read visited[n] = 0 and both appended n, and n is then
\* handed to f_node in the next round
C6_RaceWitness ==
    \E n \in Nodes :
        /\ f_node_calls[n] = 0
        /\ \E t1, t2 \in Workers :
              /\ t1 # t2
              /\ n \in Range(partial_new_frontier[t1])
              /\ n \in Range(partial_new_frontier[t2])

\* C7: the sequence of frontiers and the returned count are functions of the
\* graph and the start node alone: every run logs the ascending BFS levels,
\* in order, whatever the schedule, the worker count and the chunk size.
C7_FrontiersDeterministic ==
    /\ Len(frontierLog) <= Len(Levels)
    /\ \A r \in DOMAIN frontierLog : frontierLog[r] = Ascending(Levels[r])
    /\ frontierLog # << >> =>
          curr_frontier = frontierLog[Len(frontierLog)]
    /\ mpc = "done" =>
          /\ Len(frontierLog) = Len(Levels)
          /\ total_occurrences =
                Cardinality({n \in UNION Range(Levels) : graph.value[n + 1] = search_value})

\* two merges done: worker 0 appended 3, 1, 2 in that order, then several
\* workers appended 4; the frontiers logged are ascending and free of repeats
C7_Witness ==
    /\ mpc = "while"
    /\ graph = FanGraph
    /\ start_node = 0
    /\ n_workers = 2
    /\ frontierLog = << <<0>>, <<1, 2, 3>>, <<4>> >>

\* C9: a node that is not reachable from the start node is never marked
\* visited, never in a partial buffer, the merging set or a frontier, and
\* never passed to f_node; the run returns with those nodes unvisited and
\* counts only reachable matches.
C9_UnreachableUntouched ==
    /\ \A n \in Nodes \ Reachable :
          /\ visited[n] = 0
          /\ f_node_calls[n] = 0
          /\ n \notin Range(curr_frontier)
          /\ n \notin merging_set
          /\ \A t \in Workers : n \notin Range(partial_new_frontier[t])
    /\ mpc = "done" =>
          /\ curr_frontier = << >>
          /\ total_occurrences <=
                Cardinality({n \in Reachable : graph.value[n + 1] = search_value})

\* the run returned 0 although an unvisited node holds the search value
C9_Witness ==
    /\ mpc = "done"
    /\ graph = DisconnectedGraph
    /\ start_node = 0
    /\ search_value = 7
    /\ total_occurrences = 0
    /\ visited[2] = 0
    /\ graph.value[3] = search_value

(* ------------- the index ranges of one round, worker by worker ---------- *)

\* line 231: if ((int)curr_size > thread_no)
StaticTakesPart(thread_no, size) == size > thread_no

\* line 235: delta = (n_workers < curr_size) ? curr_size / n_workers : 1
StaticDelta(nw, size) == IF nw < size THEN size \div nw ELSE 1

\* line 236: start = thread_no * delta
StaticStart(thread_no, delta) == thread_no * delta

\* the last worker given an even share as well
StaticStop_NoRemainder(thread_no, nw, size, delta) == (thread_no + 1) * delta

\* line 237: stop = (thread_no == n_workers - 1) ? curr_size : (thread_no + 1) * delta
StaticStop(thread_no, nw, size, delta) ==
    IF thread_no = nw - 1 THEN size ELSE (thread_no + 1) * delta

\* lines 239-240: if (start == stop) stop++
StaticFix(start, stop) == IF start = stop THEN stop + 1 ELSE stop

\* a walk starts with thread 0 about to compute its ranges over a frontier of
\* length L, for W workers and chunk size C (the static policy has no chunk)
PartStart(policy, L, W, C) ==
    [pc |-> "begin", policy |-> policy, L |-> L, W |-> W, C |-> C, t |-> 0,
     number_of_chunks |-> 0, extra_chunk |-> FALSE, i |-> 0, j |-> 0,
     stop |-> 0, delta |-> 0, reads |-> << >>]

PartStarts ==
    {PartStart("chunk", L, W, C) :
        L \in 0 .. MaxLen, W \in 1 .. MaxPartWorkers, C \in 1 .. MaxChunk}
    \cup
    {PartStart("static", L, W, 1) : L \in 0 .. MaxLen, W \in 1 .. MaxPartWorkers}

\* curr_frontier[idx] read by thread t
ReadAt(p, idx) == Append(p.reads, [t |-> p.t, idx |-> idx])

\* the thread's pass is over; the next thread's ranges are walked
NextThread(p) == [p EXCEPT !.t = @ + 1, !.pc = "begin"]

\* parallel_bfs, lines 110-112 and the initialiser of line 129
P_BeginChunk ==
    /\ part.pc = "begin"
    /\ part.policy = "chunk"
    /\ part.t < part.W
    /\ part' = [part EXCEPT
                  !.number_of_chunks = NumberOfChunks(part.L, part.C),
                  !.extra_chunk = ExtraChunk(part.t, part.L, part.C),
                  !.i = part.t,
                  !.pc = "chunk"]
    /\ UNCHANGED mainvars

\* lines 129-132, and lines 149-151 when the chunk loop is over
P_Chunk ==
    /\ part.pc = "chunk"
    /\ IF part.i < part.number_of_chunks
         THEN part' = [part EXCEPT
                  !.j = ChunkStart(part.i, part.C),
                  !.stop = ChunkStop(ChunkStart(part.i, part.C), part.C),
                  !.pc = "elem"]
         ELSE IF part.extra_chunk
         THEN part' = [part EXCEPT
                  !.j = ExtraStart(part.number_of_chunks, part.C),
                  !.stop = part.L,
                  !.pc = "extra"]
         ELSE part' = NextThread(part)
    /\ UNCHANGED mainvars

\* lines 138-140
P_Elem ==
    /\ part.pc = "elem"
    /\ IF part.j < part.stop
         THEN part' = [part EXCEPT !.reads = ReadAt(part, part.j), !.j = @ + 1]
         ELSE part' = [part EXCEPT !.i = NextChunk(part.i, part.W), !.pc = "chunk"]
    /\ UNCHANGED mainvars

\* lines 151-153
P_Extra ==
    /\ part.pc = "extra"
    /\ IF part.j < part.L
         THEN part' = [part EXCEPT !.reads = ReadAt(part, part.j), !.j = @ + 1]
         ELSE part' = NextThread(part)
    /\ UNCHANGED mainvars

\* __parallel_bfs_static, lines 230-240 and the initialiser of line 246
P_BeginStatic ==
    /\ part.pc = "begin"
    /\ part.policy = "static"
    /\ part.t < part.W
    /\ IF StaticTakesPart(part.t, part.L)
         THEN LET delta == StaticDelta(part.W, part.L)
                  start == StaticStart(part.t, delta)
                  stop == StaticStop(part.t, part.W, part.L, delta)
              IN  part' = [part EXCEPT
                       !.delta = delta,
                       !.i = start,
                       !.stop = StaticFix(start, stop),
                       !.pc = "static"]
         ELSE part' = NextThread(part)
    /\ UNCHANGED mainvars

\* lines 246-248
P_Static ==
    /\ part.pc = "static"
    /\ IF part.i < part.stop
         THEN part' = [part EXCEPT !.reads = ReadAt(part, part.i), !.i = @ + 1]
         ELSE part' = NextThread(part)
    /\ UNCHANGED mainvars

\* every thread has made its pass
P_Done ==
    /\ part.pc = "begin"
    /\ part.t = part.W
    /\ part' = [part EXCEPT !.pc = "done"]
    /\ UNCHANGED mainvars

PartInit ==
    /\ graph = SingleGraph
    /\ start_node = 0
    /\ search_value \in SearchValues
    /\ n_workers = 1
    /\ chunk_size = CHUNK_SIZE
    /\ Entry
    /\ part \in PartStarts

PartNext ==
    \/ P_BeginChunk \/ P_Chunk \/ P_Elem \/ P_Extra
    \/ P_BeginStatic \/ P_Static \/ P_Done

PartSpec == PartInit /\ [][PartNext]_vars

\* the indices of curr_frontier that thread t read
ReadsOf(t) == {part.reads[x].idx : x \in {y \in DOMAIN part.reads : part.reads[y].t = t}}

AllReads == {part.reads[x].idx : x \in DOMAIN part.reads}

\* no index is read twice, by the same or by another thread
ReadsDisjoint ==
    \A x, y \in DOMAIN part.reads : x # y => part.reads[x].idx # part.reads[y].idx

\* C8: in the chunked policy of parallel_bfs the indices the W workers read
\* in one round are pairwise disjoint, none is L or more, and once every
\* worker has made its pass they are exactly 0 .. L-1.
C8_ChunkedCoverage ==
    (part.pc # "off" /\ part.policy = "chunk") =>
        /\ ReadsDisjoint
        /\ AllReads \subseteq 0 .. (part.L - 1)
        /\ part.pc = "done" => AllReads = 0 .. (part.L - 1)

\* five indices, two workers, chunks of two: worker 0 took chunk 0 and the
\* remainder, worker 1 took chunk 1
C8_Witness ==
    /\ part.pc = "done"
    /\ part.policy = "chunk"
    /\ part.L = 5 /\ part.W = 2 /\ part.C = 2
    /\ ReadsOf(0) = {0, 1, 4}
    /\ ReadsOf(1) = {2, 3}

\* C10: in the static policy of __parallel_bfs_static the ranges of the
\* workers that take part are pairwise disjoint, lie within 0 .. L-1 and
\* cover it exactly; each is contiguous, and when L >= W every worker but
\* the last reads L / W indices and the last reads those and the remainder.
C10_StaticCoverage ==
    (part.pc # "off" /\ part.policy = "static") =>
        /\ ReadsDisjoint
        /\ AllReads \subseteq 0 .. (part.L - 1)
        /\ part.pc = "done" =>
              /\ AllReads = 0 .. (part.L - 1)
              /\ \A t \in 0 .. (part.W - 1) :
                    \A a, b \in ReadsOf(t) : a .. b \subseteq ReadsOf(t)
              /\ part.L >= part.W =>
                    /\ \A t \in 0 .. (part.W - 2) :
                          Cardinality(ReadsOf(t)) = part.L \div part.W
                    /\ Cardinality(ReadsOf(part.W - 1)) =
                          (part.L \div part.W) + (part.L % part.W)

\* five indices, two workers: worker 0 read two, the last worker three
C10_Witness ==
    /\ part.pc = "done"
    /\ part.policy = "static"
    /\ part.L = 5 /\ part.W = 2
    /\ ReadsOf(0) = {0, 1}
    /\ ReadsOf(1) = {2, 3, 4}

(* ------------------- claims on f_node and the merge --------------------- *)

\* the neighbour worker t is handling: the k-th of its current node
PendingNeighbour(t) == Adj(w[t].curr_node)[w[t].k]

\* C11 (as claimed): a worker sets visited[val] to 1 before it appends val,
\* so no node is in a partial buffer while its visited flag is 0.
C11_MarkedBeforeAppended ==
    \A t \in Workers :
        \A n \in Range(partial_new_frontier[t]) : visited[n] = 1

\* C11 (amended): a worker appends val to its buffer and then sets
\* visited[val] to 1; a node that is in worker t's buffer while its flag is
\* 0 is the node t appended last and is about to mark.
C11_AppendedThenMarked ==
    \A t \in Workers :
        \A n \in Range(partial_new_frontier[t]) :
            visited[n] = 0 =>
                /\ w[t].pc = "mark"
                /\ PendingNeighbour(t) = n
                /\ partial_new_frontier[t][Len(partial_new_frontier[t])] = n

\* a worker has appended a node whose flag is still 0, after an earlier
\* append of a node that is marked
C11_Witness ==
    \E t \in Workers :
        /\ w[t].pc = "mark"
        /\ Len(partial_new_frontier[t]) = 2
        /\ visited[partial_new_frontier[t][1]] = 1
        /\ visited[partial_new_frontier[t][2]] = 0

\* the orchestrator has installed a merged frontier and has not yet released
\* the workers on it
AfterAssign ==
    \/ mpc \in {"start", "final_start"}
    \/ mpc = "while" /\ ~first_iteration

StrictlyIncreasing(s) == \A a, b \in DOMAIN s : a < b => s[a] < s[b]

\* C12: after the merge step curr_frontier is strictly increasing and holds
\* exactly the nodes of the workers' buffers of the round, a node appended by
\* several workers once, and every buffer is empty before the workers are
\* released again.
C12_MergedFrontier ==
    AfterAssign =>
        /\ StrictlyIncreasing(curr_frontier)
        /\ Range(curr_frontier) = UNION {produced[t] : t \in Workers}
        /\ merging_set = {}
        /\ \A t \in Workers : partial_new_frontier[t] = << >>

\* two workers appended the same node in a round, the merge is done and the
\* node is in the new frontier once
C12_Witness ==
    /\ mpc = "start"
    /\ n_workers = 2
    /\ produced[0] \cap produced[1] # {}
    /\ Len(curr_frontier) = Cardinality(produced[0] \cup produced[1])

\* the nodes a path of at most k edges reaches from the start node
RECURSIVE Within(_)
Within(k) ==
    IF k = 0 THEN {start_node}
    ELSE Within(k - 1) \cup Successors(Within(k - 1))

\* the nodes at shortest-path distance k from the start node
NodesAt(k) == IF k = 0 THEN {start_node} ELSE Within(k) \ Within(k - 1)

\* a worker is inside a pass over the frontier
InPass(t) == w[t].pc \in {"chunk", "elem", "extra", "adj", "push", "mark"}

\* C13: the frontier of round k (k = 0, 1, ...) is exactly the set of nodes
\* at shortest-path distance k from the start node, that is the frontier a
\* worker in its k-th pass reads, and the frontier is empty in the round
\* after the last non-empty level, where the run ends.
C13_FrontierIsLevel ==
    /\ \A r \in DOMAIN frontierLog : Range(frontierLog[r]) = NodesAt(r - 1)
    /\ \A t \in Workers :
          InPass(t) => /\ Range(curr_frontier) = NodesAt(arrivals[t])
                       /\ arrivals[t] = Len(frontierLog) - 1
    /\ \A r \in DOMAIN frontierLog :
          frontierLog[r] = << >> => r = Len(frontierLog) /\ NodesAt(r - 2) # {}
    /\ mpc = "done" => frontierLog[Len(frontierLog)] = << >>

\* the tree from node 0: a worker is in its pass of round 2 over {3, 4}
C13_Witness ==
    /\ graph = TreeGraph
    /\ start_node = 0
    /\ curr_frontier = << 3, 4 >>
    /\ frontierLog = << <<0>>, <<1, 2>>, <<3, 4>> >>
    /\ \E t \in Workers : w[t].pc = "adj" /\ arrivals[t] = 2

(* -------------------------- claims on the Barrier ----------------------- *)

\* worker t returns from WorkerWait in this step
ReturnsFromWorkerWait(t) == w[t].pc \in WaitingPcs /\ w'[t].pc \notin WaitingPcs

\* C14: a worker inside WorkerWait does not return while m_generation equals
\* the value it captured on entry, whatever wakes it; m_generation changes
\* only in a StartWorkers call of the orchestrator, once and by exactly one
\* per call.
C14_GenerationGate ==
    [][ /\ \A t \in Workers :
              ReturnsFromWorkerWait(t) => w[t].l_gen # m_generation
        /\ m_generation' # m_generation =>
              /\ mpc \in {"start", "final_start"}
              /\ m_generation' = m_generation + 1
              /\ releases' = releases + 1
        /\ releases' # releases => m_generation' = m_generation + 1
      ]_vars

\* a worker that returned from the barrier once before has been woken
\* without a release: the generation still equals its snapshot
C14_Witness ==
    \E t \in Workers :
        /\ w[t].pc = "ww_woken"
        /\ w[t].l_gen = m_generation
        /\ m_generation = 1

\* a thread that waits for w_mutex gets it when the mutex is released again
\* and again: no thread is passed over for ever
LockFairness ==
    /\ \A t \in ThreadIds : SF_vars(WW_Enter(t)) /\ SF_vars(WW_Reacquire(t))
    /\ SF_vars(M_Start) /\ SF_vars(M_FinalStart)

\* runs on the tree from node 0 with the configured chunk size: two releases
\* and the final one, with every worker count
ReleaseInit ==
    /\ Init
    /\ graph = TreeGraph
    /\ start_node = 0
    /\ chunk_size = CHUNK_SIZE

FairLockSpec == ReleaseInit /\ [][Next]_vars /\ Fairness /\ LockFairness

\* worker t is inside WorkerWait and the generation has moved past its
\* snapshot: a release is due to it
Released(t) ==
    t \in Workers /\ w[t].pc \in WaitingPcs /\ w[t].l_gen # m_generation

\* this step is a StartWorkers call
StartWorkersStep == releases' = releases + 1

\* C15: when the orchestrator calls StartWorkers every worker is waiting in
\* WorkerWait with a snapshot of the generation being closed, so the call
\* releases all of them; each released worker eventually returns from
\* WorkerWait, and no worker waits on the current generation once the last
\* release has been made.
C15_ReleaseReachesAll ==
    /\ [][ StartWorkersStep =>
              \A t \in Workers :
                  /\ w[t].pc \in {"ww_blocked", "ww_woken"}
                  /\ w[t].l_gen = m_generation
                  /\ w[t].l_gen # m_generation'
                  /\ w'[t].pc = "ww_woken"
         ]_vars
    /\ [](mpc \in {"join", "done"} =>
              \A t \in Workers : w[t].pc \in WaitingPcs => Released(t))
    /\ \A t \in ThreadIds : Released(t) ~> ~Released(t)

\* the second release of a run with two workers has just been made: both
\* are woken with the old generation in their snapshot
C15_Witness ==
    /\ n_workers = 2
    /\ releases = 2
    /\ \A t \in Workers : w[t].pc = "ww_woken" /\ Released(t)

\* the number of WorkerWait calls of the worker that made the fewest
LeastArrivals == CHOOSE a \in {arrivals[t] : t \in Workers} :
                     \A t \in Workers : a <= arrivals[t]

\* the workers that have called WorkerWait in the round not yet complete
ArrivedInOpenRound == {t \in Workers : arrivals[t] > signals}

\* the worker whose decrement brought m_count to zero, before it resets it
AtZero(t) == w[t].pc = "ww_test" /\ m_count = 0

\* C16: in every round one worker, the one whose decrement brings m_count to
\* zero, sets stop_master and calls notify_one, once, and resets m_count to
\* the party size; outside the decrement-and-test of WorkerWait m_count is
\* in 1..N and is N minus the number of workers arrived in the open round.
C16_OneSignalPerRound ==
    /\ signals = IF \E t \in Workers : AtZero(t)
                   THEN LeastArrivals - 1 ELSE LeastArrivals
    /\ signals = masterReturns + (IF stop_master THEN 1 ELSE 0)
    /\ Cardinality({t \in Workers : w[t].pc = "ww_notify"}) <= 1
    /\ notifies = signals - Cardinality({t \in Workers : w[t].pc = "ww_notify"})
    /\ \A t \in Workers : w[t].pc = "ww_notify" => w_mutex = {t} /\ releases < signals
    /\ (\A t \in Workers : w[t].pc # "ww_test") =>
          /\ m_count \in 1 .. n_workers
          /\ m_count = n_workers - Cardinality(ArrivedInOpenRound)
    /\ \A t \in Workers : w[t].pc = "ww_test" =>
          m_count = n_workers - Cardinality(ArrivedInOpenRound)

\* second round of two workers: one signal and one notification were made
\* in the first round, one worker has arrived in the second and waits
C16_Witness ==
    /\ n_workers = 2
    /\ signals = 1
    /\ notifies = 1
    /\ m_count = 1
    /\ w_mutex = {}
    /\ \E t \in Workers : w[t].pc = "ww_blocked" /\ arrivals[t] = 2

(* ------------------- claims on shutdown and ownership ------------------- *)

\* worker t has left the while loop of the lambda
LeftLoop(t) == w[t].pc \in {"exit", "done"}

\* C17: a worker leaves its loop only at a round boundary, having returned
\* from WorkerWait and found game_over set; game_over is set only with the
\* merged frontier empty, and from then on no worker is at a step that
\* reads curr_frontier, writes visited or appends to a partial buffer.
C17_ExitAtBoundary ==
    /\ \A t \in Workers :
          LeftLoop(t) =>
              /\ game_over
              /\ arrivals[t] >= 1
              /\ arrivals[t] = releases
              /\ w[t].l_gen # m_generation
    /\ game_over =>
          /\ curr_frontier = << >>
          /\ frontierLog[Len(frontierLog)] = << >>
          /\ mpc \in {"final_start", "join", "done"}
          /\ \A t \in Workers :
                /\ ~InPass(t)
                /\ w[t].pc \in WaitingPcs \cup {"loop", "exit", "done"}
                /\ w[t].pc = "loop" => arrivals[t] = releases

\* shutdown under way: one worker has left its loop and published, another
\* has returned from WorkerWait and is about to test game_over
C17_Witness ==
    /\ game_over
    /\ n_workers = 2
    /\ \E t \in Workers : w[t].pc = "done"
    /\ \E t \in Workers : w[t].pc = "loop"
    /\ Len(frontierLog) >= 3

\* f[0] + ... + f[n - 1]
RECURSIVE SumBelow(_, _)
SumBelow(f, n) == IF n = 0 THEN 0 ELSE f[n - 1] + SumBelow(f, n - 1)

\* per node, the f_node calls on it that found the search value
MatchesFound ==
    [n \in Nodes |-> IF graph.value[n + 1] = search_value THEN f_node_calls[n] ELSE 0]

\* C18: the value returned is the sum of the workers' private counters;
\* worker t writes partial_results[t] once, when it leaves its loop, the
\* orchestrator adds partial_results[t] only after joining t, and every
\* match any worker counted in any round, a matching start node included,
\* is in the sum once.
C18_ReturnIsSumOfCounters ==
    /\ \A t \in Workers :
          /\ publishes[t] = IF w[t].pc = "done" THEN 1 ELSE 0
          /\ partial_results[t] =
                IF w[t].pc = "done" THEN w[t].partial_occurrences ELSE 0
    /\ mpc = "join" =>
          /\ total_occurrences = SumBelow(partial_results, mi)
          /\ \A t \in 0 .. (mi - 1) : w[t].pc = "done"
    /\ mpc = "done" =>
          /\ total_occurrences =
                SumBelow([t \in Workers |-> w[t].partial_occurrences], n_workers)
          /\ total_occurrences = SumBelow(MatchesFound, n_nodes)
          /\ graph.value[start_node + 1] = search_value => total_occurrences >= 1

\* a run of two workers returned: the start node matches, both workers
\* counted matches and published them
C18_Witness ==
    /\ mpc = "done"
    /\ n_workers = 2
    /\ graph.value[start_node + 1] = search_value
    /\ \A t \in Workers : publishes[t] = 1 /\ w[t].partial_occurrences >= 1
    /\ total_occurrences = partial_results[0] + partial_results[1]

\* no worker is inside a pass and the orchestrator is between a return of
\* MasterWait and its next StartWorkers call
WorkersParked == AfterMasterWait /\ \A u \in Workers : ~InPass(u) /\ w[u].pc # "loop"

C20_VisitedMonotone ==
    /\ [](\A n \in Nodes : visited[n] \in {0, 1})
    /\ []((\E t \in Workers : w[t].pc # "unborn") => visited[start_node] = 1)
    /\ [][ /\ \A n \in Nodes : visited[n] = 1 => visited'[n] = 1
           /\ visited' # visited =>
                 \E n \in Nodes : visited' = [visited EXCEPT ![n] = 1]
           /\ \A t \in Workers :
                 w[t].pc = "mark" /\ w'[t].pc # "mark" =>
                    visited'[PendingNeighbour(t)] = 1
         ]_vars

\* two workers appended the same node; one has written its flag and the
\* other is about to write the same slot again
C20_Witness ==
    \E t1, t2 \in Workers :
        /\ t1 # t2
        /\ w[t1].pc = "mark"
        /\ visited[PendingNeighbour(t1)] = 1
        /\ PendingNeighbour(t1) \in Range(partial_new_frontier[t2])
        /\ w[t2].pc # "mark"

(* ------------------------- claims on progress --------------------------- *)

\* the number of nodes a visited array marks
MarkedIn(v) == Cardinality({n \in DOMAIN v : v[n] = 1})

\* the logged frontiers that hold a node: the rounds the workers process
NonEmptyRounds == {r \in DOMAIN frontierLog : frontierLog[r] # << >>}

\* C21: a round whose merged frontier is non-empty marked at least one more
\* node, every node of that frontier was unvisited when the round began and
\* is marked when it ends, and so the rounds over a non-empty frontier are
\* at most as many as the nodes of the graph.
C21_RoundsMarkProgress ==
    /\ Len(visitedLog) = Len(frontierLog)
    /\ \A r \in DOMAIN frontierLog :
          r > 1 /\ frontierLog[r] # << >> =>
              /\ MarkedIn(visitedLog[r]) >= MarkedIn(visitedLog[r - 1]) + 1
              /\ \A n \in Range(frontierLog[r]) :
                    visitedLog[r - 1][n] = 0 /\ visitedLog[r][n] = 1
    /\ Cardinality(NonEmptyRounds) <= n_nodes
    /\ masterReturns <= Cardinality(NonEmptyRounds)
    /\ masterReturns <= n_nodes

\* the tree from node 0 after its last productive round: 1, 3 and 5 nodes
\* were marked when the three frontiers were installed
C21_Witness ==
    /\ graph = TreeGraph
    /\ start_node = 0
    /\ n_workers = 2
    /\ mpc = "start"
    /\ Len(frontierLog) = 3
    /\ MarkedIn(visitedLog[1]) = 1
    /\ MarkedIn(visitedLog[2]) = 3
    /\ MarkedIn(visitedLog[3]) = 5

(* ---------------------- claims on the chunk ranges ---------------------- *)

\* the indices of the full chunks t, t + W, t + 2W, ... below floor(L / C),
\* chunk i being the C indices from i * C
FullChunkIndices(t, L, W, C) ==
    {idx \in 0 .. (L - 1) : idx \div C < L \div C /\ (idx \div C) % W = t}

\* the L mod C indices after the last full chunk
TrailingIndices(L, C) == {idx \in 0 .. (L - 1) : idx \div C = L \div C}

\* what the partitioning policy assigns to worker t
AssignedTo(t, L, W, C) ==
    FullChunkIndices(t, L, W, C) \cup (IF t = 0 THEN TrailingIndices(L, C) ELSE {})

\* worker t has finished its pass in the walk
PassOver(t) == part.pc = "done" \/ t < part.t

\* C22: in a round over L indices with chunk size C, worker t of W reads
\* the full chunks t, t + W, t + 2W, ... below floor(L / C), each C
\* contiguous indices, in ascending order, worker 0 alone reads the L mod C
\* trailing indices, and the loop variables of a worker are functions of L,
\* t, W and C.
C22_ChunkAssignment ==
    (part.pc # "off" /\ part.policy = "chunk") =>
        /\ \A t \in 0 .. (part.W - 1) :
              /\ ReadsOf(t) \subseteq AssignedTo(t, part.L, part.W, part.C)
              /\ PassOver(t) => ReadsOf(t) = AssignedTo(t, part.L, part.W, part.C)
              /\ t # 0 => ReadsOf(t) \cap TrailingIndices(part.L, part.C) = {}
        /\ \A x, y \in DOMAIN part.reads :
              x < y /\ part.reads[x].t = part.reads[y].t =>
                  part.reads[x].idx < part.reads[y].idx
        /\ part.pc \in {"chunk", "elem", "extra"} =>
              /\ part.number_of_chunks = part.L \div part.C
              /\ part.extra_chunk = (part.t = 0 /\ part.L % part.C # 0)
              /\ part.i % part.W = part.t
        /\ part.pc = "elem" =>
              /\ part.i < part.L \div part.C
              /\ part.j \in (part.i * part.C) .. ((part.i + 1) * part.C)
              /\ part.stop = (part.i + 1) * part.C
        /\ part.pc = "extra" =>
              /\ part.t = 0
              /\ part.j \in ((part.L \div part.C) * part.C) .. part.L

\* three workers over five indices in chunks of one: worker 0 has read
\* chunks 0 and 3, worker 1 chunk 1 and is about to read chunk 4
C22_Witness ==
    /\ part.pc = "elem"
    /\ part.policy = "chunk"
    /\ part.L = 5 /\ part.W = 3 /\ part.C = 1
    /\ part.t = 1 /\ part.i = 4 /\ part.j = 4
    /\ ReadsOf(0) = {0, 3}
    /\ ReadsOf(1) = {1}

=============================================================================
